---- MODULE Spec2Model ----
(***************************************************************************)
(* State-machine model of the master-password session and encryption core  *)
(* of the Portfolio Tracker: SecurityManager (src/utils/crypto.py) with    *)
(* the configuration values it reads (src/utils/config.py), the field      *)
(* codec, settings table and backup of DatabaseManager                     *)
(* (src/core/database.py) and the login form (src/main.py).                *)
(*                                                                         *)
(* Time is the wall clock datetime.now() in minutes.  Every handler runs   *)
(* at one instant; Tick moves the clock between handlers.  Two parts go    *)
(* below the handler: backup_database is taken statement by statement so   *)
(* that the process can stop inside it, and the calls made on a second     *)
(* thread are taken one field access at a time.  The external              *)
(* primitives (PBKDF2, bcrypt, Fernet) are modelled symbolically: a        *)
(* derived key is the pair it was derived from, a Fernet token names the   *)
(* key that authenticated it and whether its HMAC still verifies.          *)
(* The informational "created_at" entry of the auth file is never read by  *)
(* the program and is left out of the file's model.                        *)
(***************************************************************************)
EXTENDS Integers, Sequences, FiniteSets, TLC

(***************************************************************************)
(* Bounds of the model                                                     *)
(***************************************************************************)
MaxTime == 47
MaxIV == 1
MaxSalt == 2

(***************************************************************************)
(* Program constants (src/utils/config.py)                                 *)
(***************************************************************************)
SESSION_TIMEOUT_MINUTES == 30
PASSWORD_MIN_LENGTH == 8

(***************************************************************************)
(* Values.  Every value is a record tagged by k, so that any two values    *)
(* can be compared.                                                        *)
(***************************************************************************)
None == [k |-> "none"]
Bool(b) == [k |-> "bool", b |-> b]
BytesV(s) == [k |-> "bytes", bytes |-> s]
StrV(s) == [k |-> "str", chars |-> s]
IntV(n) == [k |-> "int", n |-> n]
\* A list, and an object of one entry {key: val}.
ListV(items) == [k |-> "list", items |-> items]
DictV(key, val) == [k |-> "dict", key |-> key, val |-> val]
\* The str that bytes.hex() returns for the bytes b.
HexV(b) == [k |-> "hexstr", of |-> b]
Returned(v) == [k |-> "return", v |-> v]
Raised(e) == [k |-> "raise", exc |-> e]
Last(op, arg, ret) == [op |-> op, arg |-> arg, ret |-> ret]
\* A call that touches the disk, with whether the disk answered.
LastIO(op, arg, ret, io_ok) == [op |-> op, arg |-> arg, ret |-> ret, io_ok |-> io_ok]

\* The byte strings drawn as inputs: empty, one byte, two bytes.
ByteSeqs == {<<>>, <<0>>, <<255, 0>>}
IVs == 1..MaxIV
Salts == 1..MaxSalt

PwStrongA == <<"T", "r", "0", "u", "b", "4", "d", "o", "r", "&", "3">>
PwStrongB == <<"p", "4", "s", "s", "w", "o", "r", "d", "!">>
PwShort == <<"s", "h", "o", "r", "t">>
Passwords == {PwStrongA, PwStrongB, PwShort}

\* Further passwords, one for each way of meeting or missing the requirements.
PolicyPasswords ==
    Passwords \cup
    {<<>>,                                             \* empty
     <<"p", "a", "s", "s", "w", "o", "r", "d">>,       \* letters only
     <<"1", "2", "3", "4", "5", "6", "7", "8">>,       \* digits only
     <<"!", "!", "&", "&", "!", "!", "&", "&">>,       \* specials only
     <<"p", "a", "s", "s", "w", "0", "r", "d">>,       \* no special
     <<"p", "a", "s", "s", "w", "o", "r", "d", "!">>,  \* no digit
     <<"1", "2", "3", "4", "5", "6", "7", "!">>,       \* no letter
     <<"p", "4", "s", "s", "w", "o", "!">>,            \* all kinds, seven characters
     <<"p", "4", "s", "s", "w", "o", "r", "!">>}       \* all kinds, eight characters

Digits == {"0", "1", "2", "3", "4", "5", "6", "7", "8", "9"}
Letters ==
    {"T", "a", "b", "d", "h", "o", "p", "r", "s", "t", "u", "w"}

(***************************************************************************)
(* Text encoding: str.encode() / bytes.decode(), json.dumps() and          *)
(* json.loads() on the characters and the JSON texts used here (no         *)
(* escapes, no white space but the one json.dumps writes after a colon,    *)
(* lists of at most one item, objects of one entry).                       *)
(***************************************************************************)
Quote == "\""

Ord(c) ==
    CASE c = "a" -> 97
      [] c = "1" -> 49
      [] c = "2" -> 50
      [] c = "b" -> 98
      [] c = "e" -> 101
      [] c = "f" -> 102
      [] c = "l" -> 108
      [] c = "n" -> 110
      [] c = "r" -> 114
      [] c = "s" -> 115
      [] c = "t" -> 116
      [] c = "u" -> 117
      [] c = Quote -> 34
      [] c = " " -> 32
      [] c = ":" -> 58
      [] c = "[" -> 91
      [] c = "]" -> 93
      [] c = "{" -> 123
      [] c = "}" -> 125
      [] OTHER -> 63

TextChars ==
    {"a", "1", "2", "b", "e", "f", "l", "n", "r", "s", "t", "u", Quote, " ", ":",
     "[", "]", "{", "}"}

Chr(b) == CHOOSE c \in TextChars : Ord(c) = b

Encode(chars) == [i \in 1..Len(chars) |-> Ord(chars[i])]

Utf8Decodable(bytes) == \A i \in 1..Len(bytes) : bytes[i] < 128

Decode(bytes) == [i \in 1..Len(bytes) |-> Chr(bytes[i])]

DigitChars == <<"0", "1", "2", "3", "4", "5", "6", "7", "8", "9">>
DigitOf(c) == CHOOSE n \in 0..9 : DigitChars[n + 1] = c

RECURSIVE IntChars(_)
IntChars(n) ==
    IF n < 10
    THEN <<DigitChars[n + 1]>>
    ELSE Append(IntChars(n \div 10), DigitChars[(n % 10) + 1])

RECURSIVE DigitsVal(_)
DigitsVal(chars) ==
    IF chars = <<>>
    THEN 0
    ELSE 10 * DigitsVal(SubSeq(chars, 1, Len(chars) - 1)) + DigitOf(chars[Len(chars)])

Quoted(chars) == <<Quote>> \o chars \o <<Quote>>

RECURSIVE JsonDumps(_)
JsonDumps(data) ==
    CASE data.k = "none" -> <<"n", "u", "l", "l">>
      [] data.k = "bool" ->
            IF data.b THEN <<"t", "r", "u", "e">> ELSE <<"f", "a", "l", "s", "e">>
      [] data.k = "int" -> IntChars(data.n)
      [] data.k = "str" -> Quoted(data.chars)
      [] data.k = "list" ->
            <<"[">> \o (IF data.items = <<>> THEN <<>> ELSE JsonDumps(data.items[1]))
                    \o <<"]">>
      [] data.k = "dict" ->
            <<"{">> \o Quoted(data.key) \o <<":", " ">> \o JsonDumps(data.val) \o <<"}">>

IsNumber(chars) ==
    /\ chars # <<>>
    /\ \A i \in 1..Len(chars) : \E n \in 0..9 : DigitChars[n + 1] = chars[i]
    /\ Len(chars) = 1 \/ chars[1] # "0"

IsQuoted(chars) ==
    /\ Len(chars) >= 2
    /\ chars[1] = Quote
    /\ chars[Len(chars)] = Quote
    /\ \A i \in 2..(Len(chars) - 1) : chars[i] \notin {Quote, "\\"}

Inner(chars) == SubSeq(chars, 2, Len(chars) - 1)

Enclosed(chars, open, close) ==
    Len(chars) >= 2 /\ chars[1] = open /\ chars[Len(chars)] = close

\* The places where the key of a one-entry object ends: a quoted key, then
\* a colon and a space.
KeyEnds(chars) ==
    {i \in 2..(Len(chars) - 2) :
        /\ IsQuoted(SubSeq(chars, 1, i))
        /\ chars[i + 1] = ":"
        /\ chars[i + 2] = " "}

\* The text of a list nested deeper than the interpreter's recursion limit
\* (a hundred thousand opening brackets, say), kept as one symbol.
DeeplyNested == <<"[[[[...">>

RECURSIVE JsonLoads(_)
JsonLoads(chars) ==
    IF chars = DeeplyNested THEN Raised("RecursionError")
    ELSE IF chars = <<"n", "u", "l", "l">> THEN Returned(None)
    ELSE IF chars = <<"t", "r", "u", "e">> THEN Returned(Bool(TRUE))
    ELSE IF chars = <<"f", "a", "l", "s", "e">> THEN Returned(Bool(FALSE))
    ELSE IF IsNumber(chars) THEN Returned(IntV(DigitsVal(chars)))
    ELSE IF IsQuoted(chars) THEN Returned(StrV(Inner(chars)))
    ELSE IF Enclosed(chars, "[", "]")
         THEN IF Inner(chars) = <<>>
              THEN Returned(ListV(<<>>))
              ELSE IF JsonLoads(Inner(chars)).k = "return"
                   THEN Returned(ListV(<<JsonLoads(Inner(chars)).v>>))
                   ELSE Raised("JSONDecodeError")
    ELSE IF Enclosed(chars, "{", "}") /\ KeyEnds(Inner(chars)) # {}
         THEN LET body == Inner(chars)
                  i == CHOOSE j \in KeyEnds(body) : TRUE
                  val == JsonLoads(SubSeq(body, i + 3, Len(body)))
              IN IF val.k = "return"
                 THEN Returned(DictV(Inner(SubSeq(body, 1, i)), val.v))
                 ELSE Raised("JSONDecodeError")
    ELSE Raised("JSONDecodeError")

\* json.loads of bytes decodes them first (UTF-8 for the byte strings here,
\* none of which is two bytes with a zero byte).
JsonLoadsBytes(bytes) ==
    IF Utf8Decodable(bytes) THEN JsonLoads(Decode(bytes)) ELSE Raised("UnicodeDecodeError")

\* bytes.decode()
BytesDecode(bytes) ==
    IF Utf8Decodable(bytes) THEN Returned(StrV(Decode(bytes))) ELSE Raised("UnicodeDecodeError")

\* json.loads of a stored string.  The hexadecimal text of a Fernet token
\* (a long run of digits and the letters a-f) is not a JSON text.
JsonLoadsStr(s) ==
    IF s.k = "hexstr" THEN Raised("JSONDecodeError") ELSE JsonLoads(s.chars)

HexDigitChars ==
    <<"0", "1", "2", "3", "4", "5", "6", "7", "8", "9", "a", "b", "c", "d", "e", "f">>
IsHexDigit(c) == \E n \in 1..16 : HexDigitChars[n] = c
HexDigitOf(c) == (CHOOSE n \in 1..16 : HexDigitChars[n] = c) - 1

\* bytes.fromhex of a stored string (lower-case digits, no white space)
bytes_fromhex(s) ==
    IF s.k = "hexstr"
    THEN Returned(s.of)
    ELSE IF Len(s.chars) % 2 = 0 /\ \A i \in 1..Len(s.chars) : IsHexDigit(s.chars[i])
         THEN Returned(BytesV([i \in 1..(Len(s.chars) \div 2) |->
                                  16 * HexDigitOf(s.chars[2 * i - 1])
                                  + HexDigitOf(s.chars[2 * i])]))
         ELSE Raised("ValueError")

(***************************************************************************)
(* SecurityManager: key derivation and password verifier                   *)
(***************************************************************************)
derive_key(password, salt) == [k |-> "key", pw |-> password, salt |-> salt]

\* Faulty variant of hash_password: the password encoded, not hashed.
hash_password_Encoded(password) == [k |-> "b64", of |-> [k |-> "str", chars |-> password]]

hash_password(password) == [k |-> "bcrypt", pw |-> password]

\* Faulty variant of verify_password: any password accepted.
verify_password_Always(password, hashed) == hashed.k = "bcrypt"

verify_password(password, hashed) == hashed.k = "bcrypt" /\ hashed.pw = password

b64encode(x) == [k |-> "b64", of |-> x]
b64decode(e) == e.of

\* Faulty variant of _validate_password_strength: one kind of character is enough.
_validate_password_strength_AnyKind(password) ==
    IF Len(password) < PASSWORD_MIN_LENGTH
    THEN FALSE
    ELSE LET has_digit == \E i \in 1..Len(password) : password[i] \in Digits
             has_letter == \E i \in 1..Len(password) : password[i] \in Letters
             has_special ==
                 \E i \in 1..Len(password) : password[i] \notin (Letters \cup Digits)
         IN has_digit \/ has_letter \/ has_special

_validate_password_strength(password) ==
    IF Len(password) < PASSWORD_MIN_LENGTH
    THEN FALSE
    ELSE LET has_digit == \E i \in 1..Len(password) : password[i] \in Digits
             has_letter == \E i \in 1..Len(password) : password[i] \in Letters
             has_special ==
                 \E i \in 1..Len(password) : password[i] \notin (Letters \cup Digits)
         IN has_digit /\ has_letter /\ has_special

AuthData(password, salt) ==
    [k |-> "auth",
     password_hash |-> b64encode(hash_password(password)),
     salt |-> b64encode(salt),
     version |-> "1.0"]

(***************************************************************************)
(* Fernet (authenticated encryption)                                       *)
(***************************************************************************)
Fernet(key) == [k |-> "fernet", key |-> key]

FernetEncrypt(c, data_bytes, iv) ==
    [k |-> "token", key |-> c.key, data |-> data_bytes, iv |-> iv, mac_ok |-> TRUE]

\* Faulty variant of FernetDecrypt: the token's key never compared with the cipher's.
FernetDecrypt_AnyKey(c, token) ==
    IF token.k = "token" /\ token.mac_ok
    THEN Returned(BytesV(token.data))
    ELSE Raised("InvalidToken")

FernetDecrypt(c, token) ==
    IF token.k = "token" /\ token.mac_ok /\ token.key = c.key
    THEN Returned(BytesV(token.data))
    ELSE Raised("InvalidToken")

Keys == {derive_key(p, s) : p \in {PwStrongA, PwStrongB}, s \in Salts}
Tokens == {FernetEncrypt(Fernet(key), d, iv) : key \in Keys, d \in ByteSeqs, iv \in IVs}
Tamper(token) == [token EXCEPT !.mac_ok = FALSE]

(***************************************************************************)
(* Inputs of the handlers                                                  *)
(***************************************************************************)
DataInputs == {BytesV(s) : s \in ByteSeqs} \cup {StrV(<<"a">>), IntV(1)}
CipherInputs == Tokens \cup {Tamper(t) : t \in Tokens} \cup {BytesV(s) : s \in ByteSeqs}

\* A path is the sequence of its stem and suffixes.
BackupPath == <<"portfolio_backup", ".db">>
\* Faulty variant of with_suffix_enc: the ciphertext written over the file itself.
with_suffix_enc_InPlace(file_path) == file_path

with_suffix_enc(file_path) == Append(file_path, ".enc")
Paths == {BackupPath, with_suffix_enc(BackupPath)}
BackupContents == {None, BytesV(<<83, 81>>)}

\* The logical values handed to encrypt_field: null, a boolean, a number, the
\* empty string, a string that is no JSON text, a string that is one, a list
\* and an object.
FieldValues ==
    {None, Bool(TRUE), IntV(1), StrV(<<>>), StrV(<<"a">>), StrV(<<"1">>),
     ListV(<<IntV(1)>>), DictV(<<"a">>, IntV(1))}

\* The plaintexts encrypt_field stores or encrypts for them.
FieldTexts ==
    {IF v.k = "str" THEN v.chars ELSE JsonDumps(v) : v \in FieldValues \ {None}}

\* Tokens over those plaintexts, and over one byte string that is not UTF-8.
FieldTokens ==
    {FernetEncrypt(Fernet(key), d, iv) :
        key \in Keys, d \in {Encode(t) : t \in FieldTexts} \cup {<<255>>}, iv \in IVs}

\* The stored strings handed to decrypt_field: NULL, plaintexts (JSON or not,
\* hexadecimal or not), and the hexadecimal text of tokens, intact or altered,
\* and of bytes that are no token.
FieldInputs ==
    {None}
    \cup {StrV(t) : t \in FieldTexts \cup {<<"a", "b">>, <<"1", "2">>, Quoted(<<"1">>),
                                           DeeplyNested}}
    \cup {HexV(t) : t \in FieldTokens}
    \cup {HexV(Tamper(t)) : t \in {u \in FieldTokens : u.data = Encode(<<"1">>)}}
    \cup {HexV(BytesV(<<0>>))}

VARIABLES
    now,             \* datetime.now(), minutes
    master_key,      \* SecurityManager._master_key
    cipher,          \* SecurityManager._cipher
    session_expiry,  \* SecurityManager._session_expiry
    auth_file,       \* contents of DATA_DIR/.auth, None when the file is missing
    files,           \* contents of each path of Paths, None when missing
    last,            \* the last call: its name, argument and outcome
    refreshedAt,     \* history: time of the last successful login or extension
    loginAt,         \* history: time of the login that started the live session
    initialPw,       \* history: the password whose initialization ended the first run
    written,         \* history: a field written under the present credential file
    settings,        \* the row of the settings table for one key, None when absent
    backup,          \* backup_database(): how far the call has got
    worker           \* a call running on another thread: how far it has got

vars ==
    <<now, master_key, cipher, session_expiry, auth_file, files, last,
      refreshedAt, loginAt, initialPw, written, settings, backup, worker>>

At(t) == [k |-> "time", t |-> t]

\* The history of a written field: the value handed to encrypt_field, the
\* string it returned, and what happened to the session since: nothing
\* ("written"), logout() ("out"), logout() and then a successful
\* authenticate() ("back").
Written(value, stored) == [value |-> value, stored |-> stored, phase |-> "written"]
LoggedOff(w) == IF w = None THEN None ELSE [w EXCEPT !.phase = "out"]
LoggedBackIn(w) ==
    IF w = None THEN None ELSE IF w.phase = "out" THEN [w EXCEPT !.phase = "back"] ELSE w

(***************************************************************************)
(* Session state and is_authenticated()                                    *)
(***************************************************************************)
Session(key, c, expiry) == [key |-> key, cipher |-> c, expiry |-> expiry]

CurrentSession == Session(master_key, cipher, session_expiry)

\* Faulty variant of LoggedOut: logout() forgets _master_key.
LoggedOut_KeepsKey == Session(master_key, None, None)

\* Faulty variant of LoggedOut: logout() forgets _session_expiry.
LoggedOut_KeepsExpiry == Session(None, None, session_expiry)

LoggedOut == Session(None, None, None)

\* Faulty variant of NewExpiry: the timeout taken as hours.
NewExpiry_Hours(t) == At(t + 60 * SESSION_TIMEOUT_MINUTES)

NewExpiry(t) == At(t + SESSION_TIMEOUT_MINUTES)

\* Faulty variant of ExtendedExpiry: the window added to the old expiry, not to now.
ExtendedExpiry_FromOldExpiry(t, expiry) == At(expiry.t + SESSION_TIMEOUT_MINUTES)

ExtendedExpiry(t, expiry) == At(t + SESSION_TIMEOUT_MINUTES)

\* Faulty variant of NewSession: the cipher built from a key derived with a fixed salt.
NewSession_FixedSalt(password, salt, t) ==
    Session(derive_key(password, salt), Fernet(derive_key(password, 1)), NewExpiry(t))

NewSession(password, salt, t) ==
    Session(derive_key(password, salt), Fernet(derive_key(password, salt)), NewExpiry(t))

SessionPresent(c, expiry) == ~(c = None \/ expiry = None)

\* Faulty variant of Expired: the instant of expiry counted as expired.
Expired_AtExpiry(t, expiry) == t >= expiry.t

\* Faulty variant of Expired: the expiry never looked at.
Expired_Never(t, expiry) == FALSE

Expired(t, expiry) == t > expiry.t

is_authenticated_result ==
    IF ~SessionPresent(cipher, session_expiry)
    THEN FALSE
    ELSE IF Expired(now, session_expiry) THEN FALSE ELSE TRUE

ExpiryObserved == SessionPresent(cipher, session_expiry) /\ Expired(now, session_expiry)

\* Faulty variant of SessionAfterAuthCheck: an expired session is reported, not cleared.
SessionAfterAuthCheck_KeepsExpired == CurrentSession

SessionAfterAuthCheck == IF ExpiryObserved THEN LoggedOut ELSE CurrentSession

SetSession(s) ==
    /\ master_key' = s.key
    /\ cipher' = s.cipher
    /\ session_expiry' = s.expiry

HistoryAfterAuthCheck ==
    /\ refreshedAt' = refreshedAt
    /\ loginAt' = IF ExpiryObserved THEN None ELSE loginAt

\* backup_database(): not running; running, at the statement pc, with the
\* bytes read and the token made so far; returned; stopped by a crash of the
\* process while at the statement pc.
BackupIdle == [pc |-> "idle"]
BackupAt(pc, data, token) == [pc |-> pc, data |-> data, token |-> token]
BackupReturned(ret, exc) == [pc |-> "returned", ret |-> ret, exc |-> exc]
BackupCrashed(pc) == [pc |-> "crashed", at |-> pc]

\* A call of the SecurityManager (or encrypt_field) made on another thread
\* or callback. Not running; running op(arg) at the statement pc of the
\* is_authenticated() call made by "inner" or past it, with (history) the
\* session its comparison observed, whether encrypt_field's own check
\* passed, and the cipher that was current when the check before the use of
\* _cipher passed; returned.
WorkerIdle == [pc |-> "idle"]
WorkerAt(pc, op, arg, inner) ==
    [pc |-> pc, op |-> op, arg |-> arg, inner |-> inner,
     observed |-> None, active |-> FALSE, checked |-> None]
WorkerReturned(w, ret) ==
    [pc |-> "returned", op |-> w.op, arg |-> w.arg, ret |-> ret,
     observed |-> w.observed, active |-> w.active, checked |-> w.checked]

Init ==
    /\ now = 0
    /\ master_key = None
    /\ cipher = None
    /\ session_expiry = None
    /\ auth_file = None
    /\ files = [p \in Paths |-> None]
    /\ last = Last("init", None, Returned(None))
    /\ refreshedAt = None
    /\ loginAt = None
    /\ initialPw = None
    /\ written = None
    /\ settings = None
    /\ backup = BackupIdle
    /\ worker = WorkerIdle

\* The same, with the backup file missing or holding some bytes.
InitFiles ==
    /\ now = 0
    /\ master_key = None
    /\ cipher = None
    /\ session_expiry = None
    /\ auth_file = None
    /\ files \in {[p \in Paths |-> IF p = BackupPath THEN c ELSE None] :
                    c \in BackupContents}
    /\ last = Last("init", None, Returned(None))
    /\ refreshedAt = None
    /\ loginAt = None
    /\ initialPw = None
    /\ written = None
    /\ settings = None
    /\ backup = BackupIdle
    /\ worker = WorkerIdle

(***************************************************************************)
(* The clock                                                               *)
(***************************************************************************)
TickSteps == {SESSION_TIMEOUT_MINUTES \div 2, SESSION_TIMEOUT_MINUTES \div 2 + 1}

Tick ==
    \E d \in TickSteps :
        /\ now + d <= MaxTime
        /\ now' = now + d
        /\ last' = Last("tick", None, Returned(None))
        /\ UNCHANGED <<master_key, cipher, session_expiry, auth_file, files,
                       refreshedAt, loginAt, initialPw, written,
                       settings, backup, worker>>

(***************************************************************************)
(* SecurityManager operations                                              *)
(***************************************************************************)
\* The outcomes of the disk for a handler: it answers or fails when the
\* handler touches it, and is not asked otherwise.
IoOutcomes(touched) == IF touched THEN BOOLEAN ELSE {TRUE}

\* The salts os.urandom may return, when the handler gets as far as using one.
SaltsDrawn(used) == IF used THEN Salts ELSE {1}

\* io_ok: whether the auth file could be written (any exception makes the
\* handler report failure).
initialize_master_password_result(password, io_ok) ==
    IF ~_validate_password_strength(password) THEN FALSE ELSE io_ok

InitializeMasterPasswordEffect(password, salt, io_ok) ==
    IF initialize_master_password_result(password, io_ok)
    THEN /\ auth_file' = AuthData(password, salt)
         /\ SetSession(NewSession(password, salt, now))
         /\ refreshedAt' = At(now)
         /\ loginAt' = At(now)
         /\ initialPw' = IF auth_file = None THEN StrV(password) ELSE initialPw
         /\ written' = None
    ELSE UNCHANGED <<auth_file, master_key, cipher, session_expiry,
                     refreshedAt, loginAt, initialPw, written>>

InitializeMasterPasswordFrom(passwords) ==
    \E password \in passwords :
    \E io_ok \in IoOutcomes(_validate_password_strength(password)) :
    \E salt \in SaltsDrawn(initialize_master_password_result(password, io_ok)) :
        /\ InitializeMasterPasswordEffect(password, salt, io_ok)
        /\ last' = LastIO("initialize_master_password", StrV(password),
                          Returned(Bool(initialize_master_password_result(password, io_ok))),
                          io_ok)
        /\ UNCHANGED <<now, settings, backup, worker, files>>

InitializeMasterPassword == InitializeMasterPasswordFrom(Passwords)

\* io_ok: whether the auth file could be read and parsed.
authenticate_result(password, io_ok) ==
    IF auth_file = None
    THEN FALSE
    ELSE IF ~io_ok
         THEN FALSE
         ELSE verify_password(password, b64decode(auth_file.password_hash))

\* Faulty variant of AuthenticateEffect: a refused login ends the session.
AuthenticateEffect_LogsOutOnFailure(password, io_ok) ==
    /\ IF authenticate_result(password, io_ok)
       THEN /\ SetSession(NewSession(password, b64decode(auth_file.salt), now))
            /\ refreshedAt' = At(now)
            /\ loginAt' = At(now)
       ELSE /\ SetSession(LoggedOut)
            /\ refreshedAt' = None
            /\ loginAt' = None
    /\ written' = IF authenticate_result(password, io_ok) THEN LoggedBackIn(written)
                  ELSE written
    /\ UNCHANGED <<auth_file, initialPw>>

AuthenticateEffect(password, io_ok) ==
    /\ IF authenticate_result(password, io_ok)
       THEN /\ SetSession(NewSession(password, b64decode(auth_file.salt), now))
            /\ refreshedAt' = At(now)
            /\ loginAt' = At(now)
       ELSE UNCHANGED <<master_key, cipher, session_expiry, refreshedAt, loginAt>>
    /\ written' = IF authenticate_result(password, io_ok) THEN LoggedBackIn(written)
                  ELSE written
    /\ UNCHANGED <<auth_file, initialPw>>

AuthenticateFrom(passwords) ==
    \E password \in passwords, io_ok \in IoOutcomes(auth_file # None) :
        /\ AuthenticateEffect(password, io_ok)
        /\ last' = LastIO("authenticate", StrV(password),
                          Returned(Bool(authenticate_result(password, io_ok))), io_ok)
        /\ UNCHANGED <<now, settings, backup, worker, files>>

Authenticate == AuthenticateFrom(Passwords)

IsAuthenticated ==
    /\ SetSession(SessionAfterAuthCheck)
    /\ HistoryAfterAuthCheck
    /\ last' = Last("is_authenticated", None, Returned(Bool(is_authenticated_result)))
    /\ UNCHANGED <<now, settings, backup, worker, auth_file, files, initialPw, written>>

ExtendSession ==
    /\ IF is_authenticated_result
       THEN /\ SetSession(Session(master_key, cipher, ExtendedExpiry(now, session_expiry)))
            /\ refreshedAt' = At(now)
            /\ loginAt' = loginAt
       ELSE /\ SetSession(SessionAfterAuthCheck)
            /\ HistoryAfterAuthCheck
    /\ last' = Last("extend_session", Bool(is_authenticated_result), Returned(None))
    /\ UNCHANGED <<now, settings, backup, worker, auth_file, files, initialPw, written>>

Logout ==
    /\ SetSession(LoggedOut)
    /\ refreshedAt' = None
    /\ loginAt' = None
    /\ written' = LoggedOff(written)
    /\ last' = Last("logout", None, Returned(None))
    /\ UNCHANGED <<now, settings, backup, worker, auth_file, files, initialPw>>

\* Faulty variant of is_first_run_result: the auth file never looked for.
is_first_run_result_Never == FALSE

is_first_run_result == auth_file = None

IsFirstRun ==
    /\ last' = Last("is_first_run", None, Returned(Bool(is_first_run_result)))
    /\ UNCHANGED <<now, settings, backup, worker,
                   master_key, cipher, session_expiry, auth_file, files,
                   refreshedAt, loginAt, initialPw, written>>

(***************************************************************************)
(* AuthenticationView.handle_submit (src/main.py): the login form          *)
(***************************************************************************)
Shown(msg) == [k |-> "shown", msg |-> msg]

\* What the form shows: the error message, or "on_success" when the main
\* view is entered.  db_ok: whether DatabaseManager.initialize succeeded.
\* Whether handle_submit gets as far as calling the SecurityManager.
SubmitsInitialize(password, confirm) ==
    /\ password # <<>>
    /\ is_first_run_result
    /\ password = confirm
    /\ Len(password) >= PASSWORD_MIN_LENGTH

SubmitsAuthenticate(password) == password # <<>> /\ ~is_first_run_result

LoginResult(password, confirm, io_ok) ==
    IF SubmitsInitialize(password, confirm)
    THEN initialize_master_password_result(password, io_ok)
    ELSE IF SubmitsAuthenticate(password)
         THEN authenticate_result(password, io_ok)
         ELSE FALSE

handle_submit_result(password, confirm, io_ok, db_ok) ==
    IF password = <<>>
    THEN Shown("Please enter a password")
    ELSE IF is_first_run_result
         THEN IF password # confirm
              THEN Shown("Passwords do not match")
              ELSE IF Len(password) < PASSWORD_MIN_LENGTH
                   THEN Shown("Password must be at least 8 characters")
                   ELSE IF initialize_master_password_result(password, io_ok)
                        THEN IF db_ok
                             THEN Shown("on_success")
                             ELSE Shown("Failed to initialize database")
                        ELSE Shown("Password does not meet requirements")
         ELSE IF authenticate_result(password, io_ok)
              THEN IF db_ok
                   THEN Shown("on_success")
                   ELSE Shown("Failed to connect to database")
              ELSE Shown("Invalid password")

HandleSubmit ==
    \E password \in PolicyPasswords :
    \E confirm \in (IF is_first_run_result THEN {password, PwShort} ELSE {password}) :
    \E io_ok \in IoOutcomes(\/ /\ SubmitsInitialize(password, confirm)
                                /\ _validate_password_strength(password)
                             \/ SubmitsAuthenticate(password)) :
    \E salt \in SaltsDrawn(/\ SubmitsInitialize(password, confirm)
                           /\ initialize_master_password_result(password, io_ok)) :
    \E db_ok \in IoOutcomes(LoginResult(password, confirm, io_ok)) :
        /\ IF SubmitsInitialize(password, confirm)
           THEN InitializeMasterPasswordEffect(password, salt, io_ok)
           ELSE IF SubmitsAuthenticate(password)
                THEN AuthenticateEffect(password, io_ok)
                ELSE UNCHANGED <<auth_file, master_key, cipher, session_expiry,
                                 refreshedAt, loginAt, initialPw, written>>
        /\ last' = LastIO("handle_submit", StrV(password),
                          Returned(handle_submit_result(password, confirm, io_ok, db_ok)),
                          io_ok)
        /\ UNCHANGED <<now, settings, backup, worker, files>>

ToBytes(data) ==
    IF data.k = "str"
    THEN Encode(data.chars)
    ELSE IF data.k = "bytes" THEN data.bytes ELSE Encode(JsonDumps(data))

encrypt_data_result(data, iv) ==
    IF ~is_authenticated_result
    THEN Raised("SecurityError")
    ELSE Returned(FernetEncrypt(cipher, ToBytes(data), iv))

\* Faulty variant of decrypt_data_result: the plaintext handed back as text.
decrypt_data_result_AsText(encrypted_data) ==
    IF ~is_authenticated_result
    THEN Raised("SecurityError")
    ELSE IF FernetDecrypt(cipher, encrypted_data).k = "return"
         THEN Returned(StrV(FernetDecrypt(cipher, encrypted_data).v.bytes))
         ELSE FernetDecrypt(cipher, encrypted_data)

decrypt_data_result(encrypted_data) ==
    IF ~is_authenticated_result
    THEN Raised("SecurityError")
    ELSE FernetDecrypt(cipher, encrypted_data)

EncryptData ==
    \E data \in DataInputs, iv \in IVs :
        /\ SetSession(SessionAfterAuthCheck)
        /\ HistoryAfterAuthCheck
        /\ last' = Last("encrypt_data", data, encrypt_data_result(data, iv))
        /\ UNCHANGED <<now, settings, backup, worker, auth_file, files, initialPw, written>>

DecryptData ==
    \E encrypted_data \in CipherInputs :
        /\ SetSession(SessionAfterAuthCheck)
        /\ HistoryAfterAuthCheck
        /\ last' = Last("decrypt_data", encrypted_data, decrypt_data_result(encrypted_data))
        /\ UNCHANGED <<now, settings, backup, worker, auth_file, files, initialPw, written>>

encrypt_file_result(file_path, iv) ==
    IF ~is_authenticated_result
    THEN Raised("SecurityError")
    ELSE IF files[file_path] = None
         THEN Raised("FileNotFoundError")
         ELSE encrypt_data_result(files[file_path], iv)

EncryptFile ==
    \E file_path \in {BackupPath}, iv \in IVs :
        /\ SetSession(SessionAfterAuthCheck)
        /\ HistoryAfterAuthCheck
        /\ files' = IF encrypt_file_result(file_path, iv).k = "return"
                    THEN [files EXCEPT ![with_suffix_enc(file_path)] =
                                           encrypt_file_result(file_path, iv).v]
                    ELSE files
        /\ last' = Last("encrypt_file", StrV(file_path),
                        IF encrypt_file_result(file_path, iv).k = "return"
                        THEN Returned(StrV(with_suffix_enc(file_path)))
                        ELSE encrypt_file_result(file_path, iv))
        /\ UNCHANGED <<now, settings, backup, worker, auth_file, initialPw, written>>

decrypt_file_result(encrypted_path) ==
    IF ~is_authenticated_result
    THEN Raised("SecurityError")
    ELSE IF files[encrypted_path] = None
         THEN Raised("FileNotFoundError")
         ELSE decrypt_data_result(files[encrypted_path])

DecryptFile ==
    \E encrypted_path \in Paths :
        /\ SetSession(SessionAfterAuthCheck)
        /\ HistoryAfterAuthCheck
        /\ last' = Last("decrypt_file", StrV(encrypted_path),
                        decrypt_file_result(encrypted_path))
        /\ UNCHANGED <<now, settings, backup, worker, auth_file, files, initialPw, written>>

(***************************************************************************)
(* DatabaseManager.encrypt_field / decrypt_field (src/core/database.py)    *)
(***************************************************************************)
\* Faulty variant of PlainField: a str serialized to JSON like any other value.
PlainField_AlwaysDumps(data) == StrV(JsonDumps(data))

\* json.dumps(data) if not isinstance(data, str) else data
PlainField(data) == IF data.k = "str" THEN data ELSE StrV(JsonDumps(data))

encrypt_field_result(data, iv) ==
    IF data = None
    THEN Returned(None)
    ELSE IF ~is_authenticated_result
         THEN Returned(PlainField(data))
         ELSE IF encrypt_data_result(PlainField(data), iv).k = "return"
              THEN Returned(HexV(encrypt_data_result(PlainField(data), iv).v))
              ELSE Returned(PlainField(data))

\* The branch under is_authenticated(): what it returns, or the exception
\* that the enclosing "except Exception: pass" swallows.
DecryptedField(encrypted_hex) ==
    IF bytes_fromhex(encrypted_hex).k = "raise"
    THEN bytes_fromhex(encrypted_hex)
    ELSE LET decrypted == decrypt_data_result(bytes_fromhex(encrypted_hex).v)
         IN IF decrypted.k = "raise"
            THEN decrypted
            ELSE IF JsonLoadsBytes(decrypted.v.bytes) = Raised("JSONDecodeError")
                 THEN BytesDecode(decrypted.v.bytes)
                 ELSE JsonLoadsBytes(decrypted.v.bytes)

\* The last step: the input parsed as JSON, or the input itself when it is no
\* JSON text; only JSONDecodeError is caught.
PlainJsonField(encrypted_hex) ==
    IF JsonLoadsStr(encrypted_hex) = Raised("JSONDecodeError")
    THEN Returned(encrypted_hex)
    ELSE JsonLoadsStr(encrypted_hex)

decrypt_field_result(encrypted_hex) ==
    IF encrypted_hex = None \/ encrypted_hex = StrV(<<>>)
    THEN Returned(None)
    ELSE IF is_authenticated_result /\ DecryptedField(encrypted_hex).k = "return"
         THEN DecryptedField(encrypted_hex)
         ELSE PlainJsonField(encrypted_hex)

EncryptFieldCall ==
    \E data \in FieldValues, iv \in IVs :
        /\ SetSession(IF data = None THEN CurrentSession ELSE SessionAfterAuthCheck)
        /\ refreshedAt' = refreshedAt
        /\ loginAt' = IF data # None /\ ExpiryObserved THEN None ELSE loginAt
        /\ last' = Last("encrypt_field", data, encrypt_field_result(data, iv))
        /\ UNCHANGED <<now, settings, backup, worker, auth_file, files, initialPw>>

EncryptField == EncryptFieldCall /\ UNCHANGED written

\* The same call, with the field remembered when it was encrypted.
EncryptFieldTracked ==
    /\ EncryptFieldCall
    /\ written' = IF last'.ret.v.k = "hexstr"
                  THEN Written(last'.arg, last'.ret.v)
                  ELSE written

DecryptFieldFrom(inputs) ==
    \E encrypted_hex \in inputs :
        /\ SetSession(IF encrypted_hex = None \/ encrypted_hex = StrV(<<>>)
                      THEN CurrentSession
                      ELSE SessionAfterAuthCheck)
        /\ refreshedAt' = refreshedAt
        /\ loginAt' = IF /\ ~(encrypted_hex = None \/ encrypted_hex = StrV(<<>>))
                         /\ ExpiryObserved
                      THEN None
                      ELSE loginAt
        /\ last' = Last("decrypt_field", encrypted_hex, decrypt_field_result(encrypted_hex))
        /\ UNCHANGED <<now, settings, backup, worker, auth_file, files, initialPw, written>>

DecryptField == DecryptFieldFrom(FieldInputs)

\* decrypt_field on the field that was written.
DecryptFieldWritten ==
    /\ written # None
    /\ DecryptFieldFrom({written.stored})

(***************************************************************************)
(* DatabaseManager.save_setting (src/core/database.py)                     *)
(***************************************************************************)
\* A row of the settings table: the value column and its encrypted flag.
\* The values handed to save_setting: none, a str, a number.
SettingValues == {None, StrV(<<"a">>), IntV(1)}

Settings(value, encrypted) == [value |-> value, encrypted |-> encrypted]

\* The string save_setting puts in the value column.
value_str(value, encrypted, iv) ==
    IF encrypted THEN encrypt_field_result(value, iv).v ELSE PlainField(value)

\* initialized: DatabaseManager._initialized at the time of the call;
\* commit_ok: whether the database session committed.
SaveSetting ==
    \E value \in SettingValues, encrypted \in BOOLEAN, initialized \in BOOLEAN :
    \E commit_ok \in IoOutcomes(initialized) :
    \E iv \in IF initialized /\ encrypted /\ value # None /\ is_authenticated_result
              THEN IVs ELSE {1} :
        LET checks == initialized /\ encrypted /\ value # None
        IN /\ SetSession(IF checks THEN SessionAfterAuthCheck ELSE CurrentSession)
           /\ refreshedAt' = refreshedAt
           /\ loginAt' = IF checks /\ ExpiryObserved THEN None ELSE loginAt
           /\ settings' = IF initialized /\ commit_ok
                          THEN Settings(value_str(value, encrypted, iv), encrypted)
                          ELSE settings
           /\ last' = Last("save_setting",
                           [k |-> "setting", value |-> value, encrypted |-> encrypted],
                           Returned(Bool(initialized /\ commit_ok)))
           /\ UNCHANGED <<now, auth_file, files, initialPw, written, backup, worker>>

(***************************************************************************)
(* DatabaseManager.backup_database (src/core/database.py), statement by    *)
(* statement, with encrypt_file (src/utils/crypto.py) inlined, so that the *)
(* process can stop between any two of them                                *)
(***************************************************************************)
EncryptedBackupPath == with_suffix_enc(BackupPath)

\* The bytes sqlite3's backup API copies into the backup file.
DatabaseBytes == BytesV(<<83, 81>>)

\* A file opened with 'wb' and not yet written.
Truncated == BytesV(<<>>)

\* Faulty variant of FilesAfterEncryptFailure: the backup removed on failure too.
FilesAfterEncryptFailure_Removes(fs) == [fs EXCEPT ![BackupPath] = None]

\* "except Exception: return backup_path": nothing is removed.
FilesAfterEncryptFailure(fs) == fs

\* encrypt_file (or the unlink after it) raised exc: backup_database
\* returns the path of the unencrypted backup.
EncryptFailed(exc) ==
    /\ backup' = BackupReturned(StrV(BackupPath), exc)
    /\ files' = FilesAfterEncryptFailure(files)

\* The call as last records it: running, or returned with its path.
BackupRecorded ==
    last' = Last("backup_database", None,
                 IF backup'.pc = "returned" THEN Returned(backup'.ret) ELSE None)

BackupSteps == {"is_authenticated", "encrypt_file", "read", "encrypt_data",
                "open", "write", "unlink"}

\* DB_PATH missing: None. Otherwise the database is copied to backup_path;
\* a failure of the copy is caught by the outer except, which returns None.
BackupStart ==
    \E db_exists \in BOOLEAN :
    \E copy_ok \in IoOutcomes(db_exists) :
        /\ backup.pc \in {"idle", "returned"}
        /\ IF ~db_exists
           THEN /\ backup' = BackupReturned(None, None)
                /\ files' = files
           ELSE IF ~copy_ok
                THEN /\ backup' = BackupReturned(None, StrV(<<"sqlite3.Error">>))
                     /\ files' = files
                ELSE /\ backup' = BackupAt("is_authenticated", None, None)
                     /\ files' = [files EXCEPT ![BackupPath] = DatabaseBytes]
        /\ BackupRecorded
        /\ UNCHANGED <<now, master_key, cipher, session_expiry, auth_file,
                       refreshedAt, loginAt, initialPw, written, settings, worker>>

\* "if self.security.is_authenticated():" of backup_database.
BackupCheckAuth ==
    /\ backup.pc = "is_authenticated"
    /\ SetSession(SessionAfterAuthCheck)
    /\ HistoryAfterAuthCheck
    /\ backup' = IF is_authenticated_result
                 THEN BackupAt("encrypt_file", None, None)
                 ELSE BackupReturned(StrV(BackupPath), None)
    /\ BackupRecorded
    /\ UNCHANGED <<now, auth_file, files, initialPw, written, settings, worker>>

\* "if not self.is_authenticated(): raise SecurityError" of encrypt_file.
BackupEncryptFileCheck ==
    /\ backup.pc = "encrypt_file"
    /\ SetSession(SessionAfterAuthCheck)
    /\ HistoryAfterAuthCheck
    /\ IF is_authenticated_result
       THEN backup' = BackupAt("read", None, None) /\ files' = files
       ELSE EncryptFailed(StrV(<<"SecurityError">>))
    /\ BackupRecorded
    /\ UNCHANGED <<now, auth_file, initialPw, written, settings, worker>>

\* "with open(file_path, 'rb') as f: ... f.read()".
BackupEncryptFileRead ==
    \E io_ok \in BOOLEAN :
        /\ backup.pc = "read"
        /\ IF io_ok /\ files[BackupPath] # None
           THEN backup' = BackupAt("encrypt_data", files[BackupPath], None) /\ files' = files
           ELSE EncryptFailed(StrV(<<"OSError">>))
        /\ BackupRecorded
        /\ UNCHANGED <<now, master_key, cipher, session_expiry, auth_file,
                       refreshedAt, loginAt, initialPw, written, settings, worker>>

\* "encrypted = self.encrypt_data(f.read())".
BackupEncryptFileEncrypt ==
    \E iv \in IVs :
        /\ backup.pc = "encrypt_data"
        /\ SetSession(SessionAfterAuthCheck)
        /\ HistoryAfterAuthCheck
        /\ IF encrypt_data_result(backup.data, iv).k = "return"
           THEN /\ backup' = BackupAt("open", backup.data,
                                      encrypt_data_result(backup.data, iv).v)
                /\ files' = files
           ELSE EncryptFailed(StrV(<<"SecurityError">>))
        /\ BackupRecorded
        /\ UNCHANGED <<now, auth_file, initialPw, written, settings, worker>>

\* "with open(encrypted_path, 'wb') as f:": the sibling is created empty.
BackupEncryptFileOpen ==
    \E io_ok \in BOOLEAN :
        /\ backup.pc = "open"
        /\ IF io_ok
           THEN /\ backup' = BackupAt("write", backup.data, backup.token)
                /\ files' = [files EXCEPT ![EncryptedBackupPath] = Truncated]
           ELSE EncryptFailed(StrV(<<"OSError">>))
        /\ BackupRecorded
        /\ UNCHANGED <<now, master_key, cipher, session_expiry, auth_file,
                       refreshedAt, loginAt, initialPw, written, settings, worker>>

\* "f.write(encrypted)" and the close at the end of the with block; when
\* the write fails the sibling stays as it was opened.
BackupEncryptFileWrite ==
    \E io_ok \in BOOLEAN :
        /\ backup.pc = "write"
        /\ IF io_ok
           THEN /\ backup' = BackupAt("unlink", backup.data, backup.token)
                /\ files' = [files EXCEPT ![EncryptedBackupPath] = backup.token]
           ELSE EncryptFailed(StrV(<<"OSError">>))
        /\ BackupRecorded
        /\ UNCHANGED <<now, master_key, cipher, session_expiry, auth_file,
                       refreshedAt, loginAt, initialPw, written, settings, worker>>

\* "backup_path.unlink()", then "return encrypted_backup".
BackupUnlink ==
    \E io_ok \in BOOLEAN :
        /\ backup.pc = "unlink"
        /\ IF io_ok
           THEN /\ backup' = BackupReturned(StrV(EncryptedBackupPath), None)
                /\ files' = [files EXCEPT ![BackupPath] = None]
           ELSE EncryptFailed(StrV(<<"OSError">>))
        /\ BackupRecorded
        /\ UNCHANGED <<now, master_key, cipher, session_expiry, auth_file,
                       refreshedAt, loginAt, initialPw, written, settings, worker>>

\* The process stops where it is: the files stay as they are and nothing
\* more runs.
BackupCrash ==
    /\ backup.pc \in BackupSteps
    /\ backup' = BackupCrashed(backup.pc)
    /\ last' = Last("crash", None, Returned(None))
    /\ UNCHANGED <<now, master_key, cipher, session_expiry, auth_file, files,
                   refreshedAt, loginAt, initialPw, written, settings, worker>>

\* The other operations go on until the process stops.
Alive == backup.pc # "crashed"

(***************************************************************************)
(* Calls on another thread: is_authenticated, encrypt_data, decrypt_data   *)
(* (src/utils/crypto.py) and encrypt_field (src/core/database.py), one     *)
(* read or write of a SecurityManager field per step. No lock is taken     *)
(* anywhere in the code, so the steps interleave freely with the           *)
(* operations of the first thread.                                         *)
(***************************************************************************)
WorkerOps == {"is_authenticated", "encrypt_data", "decrypt_data", "encrypt_field"}

\* The arguments the calls are made with.
WorkerToken == FernetEncrypt(Fernet(derive_key(PwStrongA, 1)), <<0>>, 1)
WorkerArgs(op) ==
    CASE op = "is_authenticated" -> {None}
      [] op = "encrypt_data" -> {StrV(<<"a">>)}
      [] op = "decrypt_data" -> {WorkerToken}
      [] op = "encrypt_field" -> {IntV(1)}

\* The caller of the first is_authenticated() of the call.
FirstCheck(op) ==
    CASE op = "is_authenticated" -> "own"
      [] op = "encrypt_field" -> "encrypt_field"
      [] OTHER -> "encrypt_data"

\* An exception raised in the call: inside encrypt_field's try block it is
\* caught and the plaintext returned, elsewhere it leaves the call.
WorkerRaises(w, exc) ==
    IF w.op = "encrypt_field" /\ w.inner = "encrypt_data"
    THEN WorkerReturned(w, Returned(PlainField(w.arg)))
    ELSE WorkerReturned(w, Raised(exc))

\* is_authenticated() returns b to its caller, c being the cipher then.
AfterAuth(w, b, c) ==
    CASE w.inner = "own" -> WorkerReturned(w, Returned(Bool(b)))
      [] w.inner = "encrypt_field" ->
            IF b
            THEN [w EXCEPT !.pc = "cipher_is_none", !.inner = "encrypt_data",
                           !.active = TRUE]
            ELSE WorkerReturned(w, Returned(PlainField(w.arg)))
      [] w.inner = "encrypt_data" ->
            IF b
            THEN [w EXCEPT !.pc = "use_cipher", !.checked = c]
            ELSE WorkerRaises(w, "SecurityError")

\* What "self._cipher.encrypt(...)" or "self._cipher.decrypt(...)" gives
\* with the cipher c.
CipherResult(w, c, iv) ==
    CASE w.op = "encrypt_data" -> Returned(FernetEncrypt(c, ToBytes(w.arg), iv))
      [] w.op = "decrypt_data" -> FernetDecrypt(c, w.arg)
      [] w.op = "encrypt_field" ->
            Returned(HexV(FernetEncrypt(c, ToBytes(PlainField(w.arg)), iv)))

WorkerCall ==
    \E op \in WorkerOps :
    \E arg \in WorkerArgs(op) :
        /\ worker.pc \in {"idle", "returned"}
        /\ worker' = WorkerAt("cipher_is_none", op, arg, FirstCheck(op))
        /\ UNCHANGED <<now, master_key, cipher, session_expiry, auth_file, files, last,
                       refreshedAt, loginAt, initialPw, written, settings, backup>>

\* "if self._cipher is None".
WorkerCipherIsNone ==
    /\ worker.pc = "cipher_is_none"
    /\ worker' = IF cipher = None
                 THEN AfterAuth(worker, FALSE, cipher)
                 ELSE [worker EXCEPT !.pc = "expiry_is_none"]
    /\ UNCHANGED <<now, master_key, cipher, session_expiry, auth_file, files, last,
                   refreshedAt, loginAt, initialPw, written, settings, backup>>

\* "or self._session_expiry is None".
WorkerExpiryIsNone ==
    /\ worker.pc = "expiry_is_none"
    /\ worker' = IF session_expiry = None
                 THEN AfterAuth(worker, FALSE, cipher)
                 ELSE [worker EXCEPT !.pc = "compare"]
    /\ UNCHANGED <<now, master_key, cipher, session_expiry, auth_file, files, last,
                   refreshedAt, loginAt, initialPw, written, settings, backup>>

\* "if datetime.now() > self._session_expiry": the field is read again, and
\* comparing a datetime with None raises TypeError.
WorkerCompare ==
    /\ worker.pc = "compare"
    /\ worker' = IF session_expiry = None
                 THEN WorkerRaises(worker, "TypeError")
                 ELSE IF Expired(now, session_expiry)
                      THEN [worker EXCEPT !.pc = "logout_key", !.observed = CurrentSession]
                      ELSE AfterAuth([worker EXCEPT !.observed = CurrentSession],
                                     TRUE, cipher)
    /\ UNCHANGED <<now, master_key, cipher, session_expiry, auth_file, files, last,
                   refreshedAt, loginAt, initialPw, written, settings, backup>>

\* "self.logout()" of is_authenticated: "self._master_key = None".
WorkerLogoutKey ==
    /\ worker.pc = "logout_key"
    /\ master_key' = None
    /\ worker' = [worker EXCEPT !.pc = "logout_cipher"]
    /\ UNCHANGED <<now, cipher, session_expiry, auth_file, files, last,
                   refreshedAt, loginAt, initialPw, written, settings, backup>>

\* "self._cipher = None".
WorkerLogoutCipher ==
    /\ worker.pc = "logout_cipher"
    /\ cipher' = None
    /\ worker' = [worker EXCEPT !.pc = "logout_expiry"]
    /\ UNCHANGED <<now, master_key, session_expiry, auth_file, files, last,
                   refreshedAt, loginAt, initialPw, written, settings, backup>>

\* "self._session_expiry = None", then "return False".
WorkerLogoutExpiry ==
    /\ worker.pc = "logout_expiry"
    /\ session_expiry' = None
    /\ loginAt' = None
    /\ worker' = AfterAuth(worker, FALSE, cipher)
    /\ UNCHANGED <<now, master_key, cipher, auth_file, files, last,
                   refreshedAt, initialPw, written, settings, backup>>

\* "return self._cipher.encrypt(data_bytes)" / ".decrypt(encrypted_data)":
\* the field is read again, and None has no such attribute.
WorkerUseCipher ==
    \E iv \in IVs :
        /\ worker.pc = "use_cipher"
        /\ worker' = IF cipher = None
                     THEN WorkerRaises(worker, "AttributeError")
                     ELSE WorkerReturned(worker, CipherResult(worker, cipher, iv))
        /\ UNCHANGED <<now, master_key, cipher, session_expiry, auth_file, files, last,
                       refreshedAt, loginAt, initialPw, written, settings, backup>>

Next ==
    \/ Tick
    \/ InitializeMasterPassword
    \/ Authenticate
    \/ IsAuthenticated
    \/ ExtendSession
    \/ Logout
    \/ EncryptData
    \/ DecryptData

Spec == Init /\ [][Next]_vars

\* The operations on files (decrypt_file runs decrypt_data on the file's
\* contents), with the session operations and encrypt_data around them.
NextFiles ==
    \/ Tick
    \/ InitializeMasterPassword
    \/ Authenticate
    \/ IsAuthenticated
    \/ ExtendSession
    \/ Logout
    \/ EncryptData
    \/ EncryptFile
    \/ DecryptFile

SpecFiles == InitFiles /\ [][NextFiles]_vars

\* The credential store and the login form, over the wider set of passwords.
InitializeMasterPasswordAny == InitializeMasterPasswordFrom(PolicyPasswords)
AuthenticateAny == AuthenticateFrom(PolicyPasswords)

NextCred ==
    \/ Tick
    \/ InitializeMasterPasswordAny
    \/ AuthenticateAny
    \/ HandleSubmit
    \/ IsFirstRun
    \/ IsAuthenticated
    \/ Logout

SpecCred == Init /\ [][NextCred]_vars

\* The field codec of the database, with logins, logouts and the clock.
NextFields ==
    \/ Tick
    \/ InitializeMasterPassword
    \/ Authenticate
    \/ Logout
    \/ EncryptField
    \/ DecryptField

SpecFields == Init /\ [][NextFields]_vars

\* A field written in one session and read in the sessions that follow.
NextRelogin ==
    \/ Tick
    \/ InitializeMasterPassword
    \/ Authenticate
    \/ Logout
    \/ EncryptFieldTracked
    \/ DecryptFieldWritten

SpecRelogin == Init /\ [][NextRelogin]_vars

\* The session operations with the one password of the installation.
InitializeMasterPasswordOne == InitializeMasterPasswordFrom({PwStrongA})
AuthenticateOne == AuthenticateFrom({PwStrongA})

\* The two codecs side by side: encrypt_data / decrypt_data of the
\* SecurityManager and encrypt_field / decrypt_field of the DatabaseManager.
NextCodec ==
    \/ Tick
    \/ InitializeMasterPasswordOne
    \/ AuthenticateOne
    \/ Logout
    \/ EncryptData
    \/ DecryptData
    \/ EncryptField
    \/ DecryptField

SpecCodec == Init /\ [][NextCodec]_vars

\* The settings table, written in any session state.
NextSettings ==
    \/ Tick
    \/ InitializeMasterPassword
    \/ Authenticate
    \/ Logout
    \/ SaveSetting

SpecSettings == Init /\ [][NextSettings]_vars


\* backup_database statement by statement, the clock and the session
\* operations running between its statements.
NextBackup ==
    \/ Alive /\ Tick
    \/ Alive /\ InitializeMasterPasswordOne
    \/ Alive /\ AuthenticateOne
    \/ Alive /\ Logout
    \/ BackupStart
    \/ BackupCheckAuth
    \/ BackupEncryptFileCheck
    \/ BackupEncryptFileRead
    \/ BackupEncryptFileEncrypt
    \/ BackupEncryptFileOpen
    \/ BackupEncryptFileWrite
    \/ BackupUnlink
    \/ BackupCrash

SpecBackup == Init /\ [][NextBackup]_vars

\* One thread logging in and out and asking is_authenticated(), the clock,
\* and the calls of the other thread step by step between them.
NextThreads ==
    \/ Tick
    \/ InitializeMasterPasswordOne
    \/ AuthenticateOne
    \/ Logout
    \/ IsAuthenticated
    \/ WorkerCall
    \/ WorkerCipherIsNone
    \/ WorkerExpiryIsNone
    \/ WorkerCompare
    \/ WorkerLogoutKey
    \/ WorkerLogoutCipher
    \/ WorkerLogoutExpiry
    \/ WorkerUseCipher

SpecThreads == Init /\ [][NextThreads]_vars

(***************************************************************************)
(* Properties                                                              *)
(***************************************************************************)
ReturnedTrue == Returned(Bool(TRUE))
ReturnedFalse == Returned(Bool(FALSE))
NotAuthenticated == Raised("SecurityError")

KeyMaterialPresent == master_key # None /\ cipher # None
KeyMaterialAbsent == master_key = None /\ cipher = None

\* The session of the state is present and the clock has not passed its expiry.
ValidUpToExpiry ==
    SessionPresent(cipher, session_expiry) /\ now <= session_expiry.t

\* The same, with the instant of expiry itself excluded.
ValidBeforeExpiry ==
    SessionPresent(cipher, session_expiry) /\ now < session_expiry.t

\* C1: after every completed operation, successful or not, _master_key and
\* _cipher and _session_expiry are all present or all absent.
C1_KeyAndExpiryTogether ==
    \/ master_key = None /\ cipher = None /\ session_expiry = None
    \/ master_key # None /\ cipher # None /\ session_expiry # None

\* C1 witness: decrypt_file failed on a file that is no token while a session
\* was held, and the session is still whole.
C1_Witness ==
    /\ last.op = "decrypt_file"
    /\ last.ret = Raised("InvalidToken")
    /\ KeyMaterialPresent
    /\ session_expiry # None

\* C2 as stated: is_authenticated() returns true iff a session exists and
\* now < expiresAt, the instant now = expiresAt counting as not valid.
C2_ValidIffStrictlyBefore ==
    [][last'.op = "is_authenticated"
         => last'.ret = Returned(Bool(ValidBeforeExpiry))]_vars

\* C2 amended: is_authenticated() returns true iff a session exists and
\* now <= expiresAt; at the instant now = expiresAt the session is still valid.
C2_ValidIffNotAfter ==
    [][last'.op = "is_authenticated"
         => last'.ret = Returned(Bool(ValidUpToExpiry))]_vars

\* C2 witness: is_authenticated() answered true at the instant of expiry.
C2_Witness ==
    /\ last.op = "is_authenticated"
    /\ last.ret = ReturnedTrue
    /\ session_expiry # None
    /\ now = session_expiry.t

\* The outcome that reports "not authenticated" for the two observing calls.
RefusedOutcome == IF last.op = "is_authenticated" THEN ReturnedFalse ELSE NotAuthenticated

\* C3 as stated: once the session timeout has elapsed since the last login or
\* extension (now - refreshedAt >= timeout), is_authenticated() is false and
\* encrypt_data fails as not authenticated, until a new successful login.
C3_RefusedOnceTimeoutElapsed ==
    (/\ last.op \in {"is_authenticated", "encrypt_data"}
     /\ refreshedAt # None
     /\ now >= refreshedAt.t + SESSION_TIMEOUT_MINUTES)
        => last.ret = RefusedOutcome

\* C3 amended: once more than the session timeout has elapsed since the last
\* login or extension, is_authenticated() is false and every encrypt_data
\* fails as not authenticated, until a new successful login.
C3_RefusedAfterTimeout ==
    (/\ last.op \in {"is_authenticated", "encrypt_data"}
     /\ refreshedAt # None
     /\ now > refreshedAt.t + SESSION_TIMEOUT_MINUTES)
        => last.ret = RefusedOutcome

\* C3 witness: a session was started and never logged out, more than the
\* timeout passed, and encrypt_data was refused.
C3_Witness ==
    /\ last.op = "encrypt_data"
    /\ last.ret = NotAuthenticated
    /\ refreshedAt # None
    /\ now > refreshedAt.t + SESSION_TIMEOUT_MINUTES

\* C4 as stated: in every reachable state the key material is present only
\* while now < _session_expiry.
C4_KeyOnlyBeforeExpiry ==
    (master_key # None \/ cipher # None)
        => (session_expiry # None /\ now < session_expiry.t)

\* The calls that look at the expiry (or set a fresh one) before returning.
ExpiryCheckingOps ==
    {"is_authenticated", "extend_session", "encrypt_data", "decrypt_data",
     "encrypt_file", "decrypt_file", "logout"}

\* C4 amended: the key material outlives the expiry only until the next call
\* that checks the session: after is_authenticated, extend_session, encrypt_*,
\* decrypt_* or logout returns, and after a successful login, the key material
\* is present only if now <= _session_expiry.
C4_KeyOnlyUntilExpiryObserved ==
    (/\ \/ last.op \in ExpiryCheckingOps
        \/ last.op \in {"authenticate", "initialize_master_password"}
             /\ last.ret = ReturnedTrue
     /\ (master_key # None \/ cipher # None))
        => (session_expiry # None /\ now <= session_expiry.t)

\* C4 witness: a call found the session expired and left no key material.
C4_Witness ==
    /\ last.op = "decrypt_data"
    /\ last.ret = NotAuthenticated
    /\ KeyMaterialAbsent
    /\ refreshedAt # None
    /\ now > refreshedAt.t + SESSION_TIMEOUT_MINUTES

SessionCleared == master_key = None /\ cipher = None /\ session_expiry = None

\* C5: the first is_authenticated() after the session has expired (the clock
\* is past _session_expiry) returns false and leaves key, cipher and expiry
\* absent; is_authenticated() on the cleared session keeps returning false
\* and keeps it cleared; only a successful login makes a session again.
C5_ExpiredSessionLazilyCleared ==
    /\ [][(/\ last'.op = "is_authenticated"
           /\ SessionPresent(cipher, session_expiry)
           /\ now > session_expiry.t)
            => (last'.ret = ReturnedFalse /\ SessionCleared')]_vars
    /\ [][(last'.op = "is_authenticated" /\ SessionCleared)
            => (last'.ret = ReturnedFalse /\ SessionCleared')]_vars
    /\ [][(SessionCleared /\ ~SessionCleared')
            => (/\ last'.op \in {"authenticate", "initialize_master_password"}
                /\ last'.ret = ReturnedTrue)]_vars

\* C5 witness: is_authenticated() returned false on a session that was
\* started, never logged out, and is now absent.
C5_Witness ==
    /\ last.op = "is_authenticated"
    /\ last.ret = ReturnedFalse
    /\ SessionCleared
    /\ refreshedAt # None
    /\ now > refreshedAt.t + SESSION_TIMEOUT_MINUTES

\* C6: extend_session() on an authenticated session sets _session_expiry to
\* the time of the call plus the timeout and keeps the key, so a session
\* extended in time stays valid whatever its login time; on no session or on
\* an expired one it leaves no session.
C6_ExtendSlidesWindow ==
    /\ [][last'.op = "extend_session"
            => IF ValidUpToExpiry
               THEN /\ session_expiry' = At(now + SESSION_TIMEOUT_MINUTES)
                    /\ master_key' = master_key
                    /\ cipher' = cipher
               ELSE SessionCleared']_vars
    /\ []((refreshedAt # None /\ now <= refreshedAt.t + SESSION_TIMEOUT_MINUTES)
            => ValidUpToExpiry)

\* C6 witness: a session still answers is_authenticated() with true more than
\* one timeout after the login that started it.
C6_Witness ==
    /\ last.op = "is_authenticated"
    /\ last.ret = ReturnedTrue
    /\ loginAt # None
    /\ now > loginAt.t + SESSION_TIMEOUT_MINUTES

\* C7: logout() leaves key, cipher and expiry absent whatever the state
\* before and does not touch the auth file; the next is_authenticated() is
\* false and the next encrypt_data or decrypt_data fails as not authenticated.
C7_LogoutClearsEverything ==
    /\ [][last'.op = "logout" => (SessionCleared' /\ auth_file' = auth_file)]_vars
    /\ [][(last.op = "logout" /\ last'.op = "is_authenticated")
            => last'.ret = ReturnedFalse]_vars
    /\ [][(last.op = "logout" /\ last'.op \in {"encrypt_data", "decrypt_data"})
            => last'.ret = NotAuthenticated]_vars

\* C7 witness: logout() returned, with a credential file on disk, and the
\* session is gone.
C7_Witness ==
    /\ last.op = "logout"
    /\ SessionCleared
    /\ auth_file # None

\* C8: encrypt_data and encrypt_file called without an unexpired session fail
\* with SecurityError and write no file.
C8_NoEncryptionWithoutSession ==
    [][(last'.op \in {"encrypt_data", "encrypt_file"} /\ ~ValidUpToExpiry)
         => (last'.ret = NotAuthenticated /\ files' = files)]_vars

\* C8 witness: encrypt_file was refused on an existing backup after the
\* session had expired, and no encrypted sibling exists.
C8_Witness ==
    /\ last.op = "encrypt_file"
    /\ last.ret = NotAuthenticated
    /\ files[BackupPath] # None
    /\ files[with_suffix_enc(BackupPath)] = None
    /\ refreshedAt # None

\* An untampered token sealed under the key of the current session.
SealedUnderSessionKey(token) ==
    token.k = "token" /\ token.mac_ok /\ token.key = master_key

\* C9: decrypt_data without an active session fails as not authenticated;
\* with one, every input that is not an untampered token of the session key
\* (another password, another salt, a tampered token, plain bytes) fails with
\* the decryption error and yields no plaintext.
C9_DecryptRejectsForeignInput ==
    [][last'.op = "decrypt_data"
         => IF ~ValidUpToExpiry
            THEN last'.ret = NotAuthenticated
            ELSE (~SealedUnderSessionKey(last'.arg)
                    => last'.ret = Raised("InvalidToken"))]_vars

\* C9 witness: with a session held, a well-formed token of another salt of
\* the same password was refused.
C9_Witness ==
    /\ last.op = "decrypt_data"
    /\ last.ret = Raised("InvalidToken")
    /\ KeyMaterialPresent
    /\ last.arg.k = "token"
    /\ last.arg.mac_ok
    /\ last.arg.key.pw = master_key.pw
    /\ last.arg.key.salt # master_key.salt

\* C10: decrypt_data(encrypt_data(B)) = B for bytes B when the second call
\* follows in the same session; and any token sealed under the key of the
\* live session decrypts to the bytes it was made from.
C10_RoundTrip ==
    /\ [][(/\ last.op = "encrypt_data"
           /\ last.arg.k = "bytes"
           /\ last.ret.k = "return"
           /\ last'.op = "decrypt_data"
           /\ last'.arg = last.ret.v)
            => last'.ret = Returned(last.arg)]_vars
    /\ [][(/\ last'.op = "decrypt_data"
           /\ ValidUpToExpiry
           /\ SealedUnderSessionKey(last'.arg))
            => last'.ret = Returned(BytesV(last'.arg.data))]_vars
    /\ [][(last'.op = "encrypt_data" /\ last'.ret.k = "return")
            => (/\ SealedUnderSessionKey(last'.ret.v)
                /\ last'.ret.v.data = ToBytes(last'.arg))]_vars

\* C10 witness: decrypt_data returned the non-empty bytes its token was
\* sealed from.
C10_Witness ==
    /\ last.op = "decrypt_data"
    /\ last.ret.k = "return"
    /\ last.arg.k = "token"
    /\ Len(last.arg.data) > 0
    /\ last.ret.v = BytesV(last.arg.data)

\* A token that encrypt_data produced in a session logged in with `password`.
ProducedUnderPassword(token, password) ==
    token.k = "token" /\ token.mac_ok /\ token.key.pw = password

\* C12: cross-session isolation.  A ciphertext that encrypt_data produced in a
\* session established with password P1 is never decrypted by decrypt_data in
\* a live session established with a different password P2: the call raises
\* (InvalidToken) and hands back no plaintext, whatever the salts.
C12_CrossSessionIsolation ==
    [][\A P1 \in Passwords :
         (/\ last'.op = "decrypt_data"
          /\ is_authenticated_result
          /\ ProducedUnderPassword(last'.arg, P1)
          /\ master_key.pw # P1)
         => last'.ret = Raised("InvalidToken")]_vars

\* A token sealed under PwStrongA and the stored salt was refused in a live
\* session logged in with PwStrongB against the same salt.
C12_Witness ==
    /\ last.op = "decrypt_data"
    /\ ProducedUnderPassword(last.arg, PwStrongA)
    /\ KeyMaterialPresent
    /\ master_key.pw = PwStrongB
    /\ master_key.salt = last.arg.key.salt
    /\ last.ret = Raised("InvalidToken")

\* C13: once a credential file exists, no SecurityManager operation changes
\* the stored salt or verifier -- a further initialize_master_password call
\* included.
C13_CredentialNeverChanges ==
    [][auth_file # None => auth_file' = auth_file]_vars

\* The password requirements, as the specification words them.
HasLetter(password) == \E i \in 1..Len(password) : password[i] \in Letters
HasDigit(password) == \E i \in 1..Len(password) : password[i] \in Digits
HasNonAlphanumeric(password) ==
    \E i \in 1..Len(password) : password[i] \notin Letters /\ password[i] \notin Digits
MeetsRequirements(password) ==
    /\ Len(password) >= PASSWORD_MIN_LENGTH
    /\ HasLetter(password)
    /\ HasDigit(password)
    /\ HasNonAlphanumeric(password)

\* The step leaves the session fields as they were.
SessionUntouched ==
    /\ master_key' = master_key
    /\ cipher' = cipher
    /\ session_expiry' = session_expiry

\* C14: initialize_master_password accepts a password iff it has at least
\* PASSWORD_MIN_LENGTH characters and holds a letter, a digit and a
\* non-alphanumeric character (the auth file being writable); for any other
\* password it reports failure, writes no credential file and starts no session.
C14_PasswordRequirements ==
    [][last'.op = "initialize_master_password" =>
         /\ last'.ret = ReturnedTrue => MeetsRequirements(last'.arg.chars)
         /\ (MeetsRequirements(last'.arg.chars) /\ last'.io_ok) =>
                /\ last'.ret = ReturnedTrue
                /\ auth_file' # None
                /\ KeyMaterialPresent'
         /\ ~MeetsRequirements(last'.arg.chars) =>
                /\ last'.ret = ReturnedFalse
                /\ auth_file' = auth_file
                /\ SessionUntouched]_vars

\* "short" was refused on a fresh installation: still no file, no session.
C14_Witness ==
    /\ last.op = "initialize_master_password"
    /\ last.arg = StrV(PwShort)
    /\ last.ret = ReturnedFalse
    /\ auth_file = None
    /\ KeyMaterialAbsent
    /\ session_expiry = None

\* The verifier of the credential file is the one made from this password.
MatchesVerifierOf(file, password) ==
    file # None /\ file.password_hash = b64encode(hash_password(password))

MatchesStoredVerifier(password) == MatchesVerifierOf(auth_file, password)

\* C15: authenticate establishes a session only if a credential file exists
\* and the password matches the stored verifier; with no file, or with a
\* password that does not match, it reports failure, and in neither case is a
\* key derived or a session started (the session fields stay as they were).
C15_AuthenticateOnlyOnMatch ==
    [][last'.op = "authenticate" =>
         /\ last'.ret = ReturnedTrue =>
                /\ MatchesStoredVerifier(last'.arg.chars)
                /\ KeyMaterialPresent'
         /\ (MatchesStoredVerifier(last'.arg.chars) /\ last'.io_ok) =>
                last'.ret = ReturnedTrue
         /\ ~MatchesStoredVerifier(last'.arg.chars) =>
                /\ last'.ret = ReturnedFalse
                /\ SessionUntouched]_vars

\* A password other than the stored one was refused with the file present
\* and readable, and no session exists.
C15_Witness ==
    /\ last.op = "authenticate"
    /\ last.io_ok
    /\ auth_file # None
    /\ ~MatchesStoredVerifier(last.arg.chars)
    /\ MeetsRequirements(last.arg.chars)
    /\ last.ret = ReturnedFalse
    /\ KeyMaterialAbsent

\* is_first_run() answers true exactly when no credential file exists.
FirstRunIffNoFile ==
    [](last.op = "is_first_run" => (last.ret = ReturnedTrue <=> auth_file = None))

\* Once the first run has ended with a successful initialization, the
\* credential file is there for good.
FirstRunNeverReturns ==
    [](initialPw # None => auth_file # None)

\* authenticate with the password of the first-run initialization succeeds
\* whenever the auth file can be read.
InitialPasswordLogsIn ==
    [][(/\ last'.op = "authenticate"
        /\ initialPw # None
        /\ last'.arg = initialPw
        /\ last'.io_ok)
       => last'.ret = ReturnedTrue]_vars

\* C16: is_first_run() is true iff no credential file exists; starting from
\* first run, a successful initialize_master_password(P) makes is_first_run()
\* false from then on, and a later authenticate(P) succeeds.
C16_FirstRunThenLogin ==
    FirstRunIffNoFile /\ FirstRunNeverReturns /\ InitialPasswordLogsIn

\* The login went through: the SecurityManager call of the step returned True.
LoginSucceeded(l) ==
    \/ /\ l.op \in {"initialize_master_password", "authenticate"}
       /\ l.ret = ReturnedTrue
    \/ /\ l.op = "handle_submit"
       /\ l.ret.v.msg \in {"on_success", "Failed to initialize database",
                           "Failed to connect to database"}

\* C17: the login form dispatches on the first-run state -- with no credential
\* file it initializes (it never verifies), with one it verifies and never
\* rewrites the file -- and every successful login (through the form or by a
\* direct call) leaves a session whose key is derive_key(password, stored salt),
\* whose expiry is the login time plus SESSION_TIMEOUT_MINUTES, and for which
\* is_authenticated() is true immediately afterwards.
C17_LoginEstablishesSession ==
    [][/\ (last'.op = "handle_submit" /\ auth_file = None) =>
              /\ last'.ret.v.msg # "Invalid password"
              /\ (/\ MeetsRequirements(last'.arg.chars)
                  /\ last'.io_ok
                  /\ last'.ret.v.msg # "Passwords do not match")
                 => (LoginSucceeded(last') /\ MatchesVerifierOf(auth_file', last'.arg.chars))
       /\ (last'.op = "handle_submit" /\ auth_file # None) =>
              /\ auth_file' = auth_file
              /\ LoginSucceeded(last') => MatchesStoredVerifier(last'.arg.chars)
       /\ LoginSucceeded(last') =>
              /\ master_key' = derive_key(last'.arg.chars, b64decode(auth_file'.salt))
              /\ cipher' = Fernet(master_key')
              /\ session_expiry' = At(now + SESSION_TIMEOUT_MINUTES)
              /\ is_authenticated_result']_vars

\* The form logged in against an existing credential file, some time after
\* the installation was set up, and the session runs from that moment.
C17_Witness ==
    /\ last.op = "handle_submit"
    /\ last.ret = Returned(Shown("on_success"))
    /\ now > 0
    /\ loginAt = At(now)
    /\ master_key = derive_key(last.arg.chars, b64decode(auth_file.salt))
    /\ session_expiry = At(now + SESSION_TIMEOUT_MINUTES)

\* C11: key derivation is deterministic in (password, salt) with no
\* per-session component: a value written by encrypt_field in one session is
\* read back unchanged by decrypt_field after logout() and a successful
\* authenticate() with the same password against the same credential file.
C11_ReadBackAfterRelogin ==
    [][(/\ last'.op = "decrypt_field"
        /\ written # None
        /\ written.phase = "back"
        /\ is_authenticated_result
        /\ last'.arg = written.stored)
       => last'.ret = Returned(written.value)]_vars

\* The text encrypt_field works on: the string itself, or the JSON text of a
\* value that is not a string.
FieldText(value) == IF value.k = "str" THEN value.chars ELSE JsonDumps(value)

\* The hexadecimal text of a token over these characters, sealed by the
\* session's cipher.
HexOfSealed(stored, chars) ==
    \E iv \in IVs : stored = HexV(FernetEncrypt(cipher, Encode(chars), iv))

C19_FieldRoundTrip ==
    [][\A v \in FieldValues, iv \in IVs :
         (/\ last'.op = "decrypt_field"
          /\ Returned(last'.arg) = encrypt_field_result(v, iv))
         => last'.ret = Returned(v)]_vars

\* C20: decrypt_field never raises for any input string in any session state
\* and follows the three-tier fallback: with an active session the decrypted and
\* parsed value when hex-decoding and decryption succeed; otherwise, and always
\* with no session, the input parsed as plain JSON; and the raw input string
\* unchanged when that parse fails.
C20_NeverRaisesThreeTier ==
    [][(last'.op = "decrypt_field" /\ last'.arg # None) =>
         LET s == last'.arg
             opened ==
                 IF is_authenticated_result /\ bytes_fromhex(s).k = "return"
                 THEN decrypt_data_result(bytes_fromhex(s).v)
                 ELSE Raised("not tried")
         IN /\ last'.ret.k = "return"
            /\ IF opened.k = "return"
               THEN JsonLoadsBytes(opened.v.bytes).k = "return" =>
                        last'.ret = JsonLoadsBytes(opened.v.bytes)
               ELSE IF JsonLoadsStr(s).k = "return"
                    THEN last'.ret = JsonLoadsStr(s)
                    ELSE last'.ret = Returned(s)]_vars

RECURSIVE Reveals(_, _)
Reveals(v, password) ==
    CASE v.k = "str" -> v.chars = password
      [] v.k = "b64" -> Reveals(v.of, password)
      [] v.k = "fernet" -> Reveals(v.key, password)
      [] v.k = "auth" -> Reveals(v.password_hash, password)
      [] OTHER -> FALSE

\* C23: after any operation has returned, neither the credential file nor a
\* field of the SecurityManager (_master_key, _cipher, _session_expiry) holds
\* a password handed to initialize_master_password, authenticate or the login
\* form, in the clear or in an encoding that can be undone.
C23_PasswordNeverStored ==
    \A password \in PolicyPasswords \cup Passwords :
        /\ ~Reveals(auth_file, password)
        /\ ~Reveals(master_key, password)
        /\ ~Reveals(cipher, password)
        /\ ~Reveals(session_expiry, password)

\* C23 witness: a login with the stored password has just succeeded, so the
\* credential file and all three fields are filled.
C23_Witness ==
    /\ last.op = "authenticate"
    /\ last.ret = Returned(Bool(TRUE))
    /\ auth_file # None
    /\ auth_file.password_hash.of.pw = last.arg.chars
    /\ master_key # None
    /\ master_key.pw = last.arg.chars
    /\ cipher # None
    /\ session_expiry # None

\* C28: a failed login attempt leaves the session as it was. When
\* authenticate() returns False -- no credential file, a password that does
\* not match, a file that cannot be read -- or initialize_master_password()
\* returns False for a weak password, _master_key, _cipher and
\* _session_expiry keep their values: an active session is still active
\* with the same key and expiry, a logged-out manager is still logged out.
C28_FailedLoginKeepsSession ==
    /\ [][(last'.op = "authenticate" /\ last'.ret = ReturnedFalse) =>
            /\ \/ auth_file = None
               \/ ~MatchesStoredVerifier(last'.arg.chars)
               \/ ~last'.io_ok
            /\ SessionUntouched
            /\ auth_file' = auth_file
            /\ is_authenticated_result' = is_authenticated_result]_vars
    /\ [][(/\ last'.op = "initialize_master_password"
           /\ last'.ret = ReturnedFalse
           /\ ~MeetsRequirements(last'.arg.chars)) =>
            /\ SessionUntouched
            /\ is_authenticated_result' = is_authenticated_result]_vars

\* C28 witness: while a session was active, authenticate() was refused for a
\* password other than the one the session was opened with, and the session
\* is still active under the key of its own password.
C28_Witness ==
    /\ last.op = "authenticate"
    /\ last.ret = ReturnedFalse
    /\ last.io_ok
    /\ is_authenticated_result
    /\ master_key # None
    /\ master_key.pw # last.arg.chars
    /\ cipher = Fernet(master_key)

\* A stored string that is the hex of an untampered ciphertext.
WrittenAsCiphertext(s) ==
    s.k = "hexstr" /\ s.of.k = "token" /\ s.of.mac_ok

\* C29: decrypt_field returns the plaintext of a field written as
\* ciphertext only if, at the time of the read, a session is active that
\* holds the key the field was written under. With no session (none, or one
\* that has expired), or with a session under another key, it returns the
\* stored hex string itself and never the protected value.
C29_PlaintextOnlyUnderWritingKey ==
    [][(last'.op = "decrypt_field" /\ WrittenAsCiphertext(last'.arg)) =>
         LET token == last'.arg.of
             readable == is_authenticated_result /\ cipher.key = token.key
         IN /\ ~readable =>
                  /\ last'.ret = Returned(last'.arg)
                  /\ last'.ret.v.k = "hexstr"
            /\ last'.ret # Returned(last'.arg) => readable]_vars

\* C29 witness: with a session active under one key, decrypt_field was
\* handed the hex of a ciphertext written under another key and gave back
\* that hex string.
C29_Witness ==
    /\ last.op = "decrypt_field"
    /\ WrittenAsCiphertext(last.arg)
    /\ is_authenticated_result
    /\ cipher.key # last.arg.of.key
    /\ JsonLoadsBytes(last.arg.of.data).k = "return"
    /\ last.ret = Returned(last.arg)

CodecOps == {"encrypt_data", "decrypt_data", "encrypt_field", "decrypt_field"}

\* Whether the call got as far as is_authenticated(): encrypt_field(None)
\* and decrypt_field of None or "" return before it.
ReachesAuthCheck(l) ==
    CASE l.op = "encrypt_field" -> l.arg # None
      [] l.op = "decrypt_field" -> ~(l.arg = None \/ l.arg = StrV(<<>>))
      [] OTHER -> TRUE

\* C25 as stated: a call to encrypt_data, decrypt_data, encrypt_field or
\* decrypt_field leaves _master_key, _cipher and _session_expiry unchanged
\* in every state in which it is called.
C25_CodecNeverTouchesSession ==
    [][last'.op \in CodecOps => SessionUntouched]_vars

\* C25, amended: such a call never replaces the key, the cipher or the
\* expiry by other values. It leaves all three unchanged unless it finds
\* the session expired at its is_authenticated() check, and then it sets
\* all three to None.
C25_CodecOnlyClearsExpiredSession ==
    [][last'.op \in CodecOps =>
         IF ExpiryObserved /\ ReachesAuthCheck(last')
         THEN /\ master_key' = None
              /\ cipher' = None
              /\ session_expiry' = None
         ELSE SessionUntouched]_vars

\* C25 witness: encrypt_field was called on a value after the session had
\* run out; it returned the plaintext and no session field is left.
C25_Witness ==
    /\ last.op = "encrypt_field"
    /\ last.arg # None
    /\ last.ret = Returned(PlainField(last.arg))
    /\ master_key = None
    /\ cipher = None
    /\ session_expiry = None
    /\ refreshedAt # None
    /\ now > refreshedAt.t + SESSION_TIMEOUT_MINUTES

\* C27: after any save_setting(key, value, encrypted) that saved the row,
\* in any session state, the row's encrypted flag is true iff the stored
\* value is hex ciphertext, and false iff it is plaintext.
C27_FlagTellsEncoding ==
    [][(last'.op = "save_setting" /\ last'.ret = ReturnedTrue) =>
         /\ settings'.encrypted = last'.arg.encrypted
         /\ settings'.encrypted <=> (settings'.value.k = "hexstr")
         /\ ~settings'.encrypted <=> (settings'.value.k = "str")]_vars

\* C21: during backup_database the unencrypted backup is deleted only by
\* the unlink that follows a successful return of encrypt_file, when the
\* encrypted sibling holds the whole ciphertext of the backup and is closed;
\* while the call runs before that, when the process has stopped at any
\* statement, and when encryption (or anything after it) has failed, the
\* unencrypted backup exists, and in the case of failure it is the path
\* returned.
C21_BackupDeletedOnlyAfterEncrypted ==
    /\ [][(files[BackupPath] # None /\ files'[BackupPath] = None) =>
            /\ backup.pc = "unlink"
            /\ files[EncryptedBackupPath] = backup.token
            /\ backup.token.k = "token"
            /\ backup.token.mac_ok
            /\ backup.token.data = files[BackupPath].bytes
            /\ files'[EncryptedBackupPath] = files[EncryptedBackupPath]
            /\ backup' = BackupReturned(StrV(EncryptedBackupPath), None)]_vars
    /\ [](backup.pc \in BackupSteps => files[BackupPath] # None)
    /\ [](backup.pc = "crashed" => files[BackupPath] # None)
    /\ []((backup.pc = "returned" /\ backup.exc # None /\ backup.ret # None) =>
            /\ backup.ret = StrV(BackupPath)
            /\ files[BackupPath] # None)
    /\ []((backup.pc = "returned" /\ backup.ret = StrV(BackupPath)) =>
            files[BackupPath] # None)

\* C21 witness: backup_database has returned the encrypted path; the
\* unencrypted backup is gone and the sibling holds the ciphertext of the
\* database bytes.
C21_Witness ==
    /\ backup = BackupReturned(StrV(EncryptedBackupPath), None)
    /\ files[BackupPath] = None
    /\ files[EncryptedBackupPath].k = "token"
    /\ files[EncryptedBackupPath].mac_ok
    /\ files[EncryptedBackupPath].data = DatabaseBytes.bytes

\* C24: the expiry check-and-clear of is_authenticated() is atomic with
\* respect to login and logout on another thread: is_authenticated() never
\* fails with an exception, and the logout() it runs after observing an
\* expired session clears that session only, never one established since
\* by authenticate (a session is told from the previous one by its expiry).
C24_ExpiryClearIsAtomic ==
    /\ []((worker.pc = "returned" /\ worker.op = "is_authenticated") =>
            worker.ret.k = "return")
    /\ [][(/\ worker.pc \in {"logout_key", "logout_cipher", "logout_expiry"}
           /\ worker'.pc # worker.pc) =>
            session_expiry \in {None, worker.observed.expiry}]_vars

\* C26: whenever encrypt_field's own is_authenticated() check found an
\* active session, the call returns hex ciphertext and never the plaintext,
\* whatever happens between that check and the check inside encrypt_data.
C26_ActiveSessionGivesCiphertext ==
    (worker.pc = "returned" /\ worker.op = "encrypt_field" /\ worker.active) =>
        /\ worker.ret.k = "return"
        /\ worker.ret.v.k = "hexstr"

\* C30: encrypt_data and decrypt_data, run against a concurrent logout()
\* or expiry clear, end in one of two ways only: with the result computed
\* under the cipher that was current when their authentication check
\* passed, or with the not-authenticated SecurityError.
C30_ResultOrNotAuthenticated ==
    (worker.pc = "returned" /\ worker.op \in {"encrypt_data", "decrypt_data"}) =>
        \/ worker.ret = Raised("SecurityError")
        \/ /\ worker.checked # None
           /\ \E iv \in IVs : worker.ret = CipherResult(worker, worker.checked, iv)

====
